---- MODULE Spec2Model ----
(***************************************************************************)
(* A model of ptyprocess.py: PtyProcess.spawn (the fork/exec handshake     *)
(* over the error-report pipe), the handle's lifecycle operations          *)
(* (isalive, wait, kill, terminate, close, __del__) and the pty channel    *)
(* (read, readline, write), together with the operating system's side:     *)
(* the child process, its wait status, its signal dispositions and the     *)
(* pseudoterminal.                                                         *)
(*                                                                         *)
(* The parent program is single-threaded; pc is its position.  The child   *)
(* process and other parties (a tracer, another waiter) run concurrently   *)
(* and take their steps between the parent's system calls.                 *)
(***************************************************************************)
EXTENDS Integers, Sequences, FiniteSets, TLC

(* ---------------------------------------------------------------- bounds *)
MaxBuf == 1          \* bytes the child may have written and the parent not read
MaxExit == 1         \* the child program exits with a code in 0..MaxExit
MaxSize == 2         \* read(size) is called with size in 0..MaxSize

(* ------------------------------------------------------ program constants *)
SIGHUP == 1
SIGINT == 2
SIGKILL == 9
SIGCONT == 18
SIGSTOP == 19
WNOHANG == 1
EIO == 5
EX_OSERR == 71

None == <<>>
Some(x) == <<x>>

NL == 10             \* b"\n"
Bytes == {NL, 97}

(* ------------------------------------------------------------ wait status *)
\* The encoding os.waitpid returns and the os.W* macros decode.
ExitedStatus(c) == c * 256
SignaledStatus(s) == s
StoppedStatus(s) == s * 256 + 127

WIFEXITED(s) == s % 128 = 0
WIFSTOPPED(s) == s % 256 = 127
WIFSIGNALED(s) == (s % 128) # 0 /\ (s % 128) # 127
WEXITSTATUS(s) == (s \div 256) % 256
WTERMSIG(s) == s % 128

VARIABLES
    h,       \* the PtyProcess instance's fields
    child,   \* the child process as the kernel sees it
    tty,     \* the pseudoterminal: is the slave side open, and the unread output
    pipe,    \* the error-report pipe of spawn
    sp,      \* spawn's arguments and its outcome in the parent
    pc,      \* the parent's position
    fr,      \* the arguments of the operations in progress, and the signals
             \* the terminate in progress has sent
    ret,     \* what the last finished operation returned or raised
    ev,      \* the system calls the parent's last step made
    cfg      \* the child program's signal dispositions and the platform's EOF style

vars == <<h, child, tty, pipe, sp, pc, fr, ret, ev, cfg>>

(* ------------------------------------------------------------- __init__ *)
NewHandle(fd) ==
    [fd |-> fd, fileobj |-> "open", terminated |-> FALSE, closed |-> FALSE,
     exitstatus |-> None, signalstatus |-> None, status |-> None,
     flag_eof |-> FALSE]

NoEv == [waits |-> <<>>, sigs |-> <<>>, closes |-> 0, oscloses |-> 0]
NoRet == [op |-> "none", exc |-> "none", bool |-> FALSE, val |-> None, via |-> "none",
          force |-> FALSE]
NoFrame == [force |-> FALSE, caller |-> "user", closer |-> "user", k |-> 0, cforce |-> FALSE,
            sent |-> <<>>]

Hooks == {"none", "ValueError", "EOFError"}

\* Before spawn is called.
InitSpawn ==
    /\ h = NewHandle(-1)
    /\ child = [st |-> "none", ws |-> 0, err |-> "none", xc |-> 0]
    /\ tty = [slave |-> FALSE, buf |-> <<>>, mcloses |-> 0]
    /\ pipe = [made |-> FALSE, data |-> <<>>, rP |-> FALSE, wP |-> FALSE,
               rC |-> FALSE, wC |-> FALSE]
    /\ sp = [inst |-> FALSE, forked |-> FALSE, hook |-> "none", execOk |-> TRUE,
             cwdOk |-> TRUE, outcome |-> "none", exc |-> "none"]
    /\ pc = "start"
    /\ fr = NoFrame
    /\ ret = NoRet
    /\ ev = NoEv
    /\ cfg \in [ign : {{}, {SIGHUP}, {SIGHUP, SIGINT}}, style : {"linux", "bsd"}]

(* ------------------------------------------------------------------ spawn *)
MadePipe == [made |-> TRUE, data |-> <<>>, rP |-> TRUE, wP |-> TRUE,
             rC |-> FALSE, wC |-> FALSE]

\* spawn with the pipe created before the checks of its arguments.
SpawnArgsAfterPipe(argvOk, whichOk, p) ==
    [exc  |-> IF ~argvOk THEN "TypeError"
              ELSE IF ~whichOk THEN "FileNotFoundError" ELSE "none",
     pipe |-> MadePipe]

\* Lines 189-202: the argv type check and shutil.which. The error raised
\* ("none": go on) and the pipe as these lines leave it.
SpawnArgs(argvOk, whichOk, p) ==
    [exc  |-> IF ~argvOk THEN "TypeError"
              ELSE IF ~whichOk THEN "FileNotFoundError" ELSE "none",
     pipe |-> p]

Spawn ==
    /\ pc = "start"
    /\ \E argvOk, whichOk, execOk, cwdOk \in BOOLEAN, hook \in Hooks :
         LET a == SpawnArgs(argvOk, whichOk, pipe) IN
         /\ pipe' = a.pipe
         /\ IF a.exc # "none"
            THEN /\ sp' = [sp EXCEPT !.outcome = "raised", !.exc = a.exc]
                 /\ pc' = "done"
            ELSE /\ sp' = [sp EXCEPT !.hook = hook, !.execOk = execOk, !.cwdOk = cwdOk]
                 /\ pc' = "s_pipe"
    /\ UNCHANGED <<h, child, tty, fr, ret, ev, cfg>>

\* Lines 211-213: os.pipe(), then pty_fork(), which may fail with an OSError.
SpawnFork ==
    /\ pc = "s_pipe"
    /\ \E forkOk \in BOOLEAN :
         IF forkOk
         THEN /\ pipe' = [MadePipe EXCEPT !.rC = TRUE, !.wC = TRUE]
              /\ child' = [child EXCEPT !.st = "c_setup"]
              /\ tty' = [tty EXCEPT !.slave = TRUE]
              /\ sp' = [sp EXCEPT !.forked = TRUE]
              /\ pc' = "s_inst"
         ELSE /\ pipe' = MadePipe
              /\ sp' = [sp EXCEPT !.outcome = "raised", !.exc = "OSError"]
              /\ pc' = "done"
              /\ UNCHANGED <<child, tty>>
    /\ UNCHANGED <<h, fr, ret, ev, cfg>>

\* Lines 275-279, parent: construct the instance, close the write end.
SpawnInst ==
    /\ pc = "s_inst"
    /\ h' = NewHandle(5)
    /\ sp' = [sp EXCEPT !.inst = TRUE]
    /\ pipe' = [pipe EXCEPT !.wP = FALSE]
    /\ pc' = "s_read"
    /\ UNCHANGED <<child, tty, fr, ret, ev, cfg>>

\* Line 289: pickle.load raises EOFError on an empty stream at end of file,
\* and otherwise returns the error the child dumped, which line 290 raises.
PickleLoadRaise(data) == IF data = <<>> THEN "EOFError" ELSE data[1]

\* Lines 287-293: what leaves the try statement ("none": execution goes on).
Handshake(data) ==
    IF PickleLoadRaise(data) = "EOFError" THEN "none" ELSE PickleLoadRaise(data)

\* The read returns once a whole pickle is there, or at end of file, which
\* needs every copy of the write end closed.
SpawnRead ==
    /\ pc = "s_read"
    /\ pipe.data # <<>> \/ (~pipe.wP /\ ~pipe.wC)
    /\ pipe' = [pipe EXCEPT !.rP = FALSE]
    /\ IF Handshake(pipe.data) = "none"
       THEN /\ pc' = "s_winsize"
            /\ sp' = sp
       ELSE /\ pc' = "idle"
            /\ sp' = [sp EXCEPT !.outcome = "raised", !.exc = Handshake(pipe.data)]
    /\ UNCHANGED <<h, child, tty, fr, ret, ev, cfg>>

\* Lines 295-301: inst.setwinsize; EINVAL, ENOTTY and ENXIO are tolerated.
SpawnWinsize ==
    /\ pc = "s_winsize"
    /\ \E werr \in {"none", "ENOTTY", "EBADF"} :
         sp' = IF werr \in {"none", "EINVAL", "ENOTTY", "ENXIO"}
               THEN [sp EXCEPT !.outcome = "returned"]
               ELSE [sp EXCEPT !.outcome = "raised", !.exc = "IOError"]
    /\ pc' = "idle"
    /\ UNCHANGED <<h, child, tty, pipe, fr, ret, ev, cfg>>

(* -------------------------------------------------- spawn, the child branch *)
\* Lines 219-260: terminal setup, close the read end, close-on-exec on the
\* write end, chdir, the pre-exec hook.  A failing chdir is not caught: the
\* exception leaves spawn in the child, which goes on as a copy of the caller.
ChildSetup ==
    /\ child.st = "c_setup"
    /\ pipe' = [pipe EXCEPT !.rC = FALSE]
    /\ child' = IF ~sp.cwdOk THEN [child EXCEPT !.st = "runaway"]
                ELSE IF sp.hook # "none"
                THEN [child EXCEPT !.st = "c_fail", !.err = sp.hook, !.xc = 1]
                ELSE [child EXCEPT !.st = "c_exec"]
    /\ UNCHANGED <<h, tty, sp, pc, fr, ret, ev, cfg>>

\* Lines 262-267: exec.  On success close-on-exec closes the write end.
ChildExec ==
    /\ child.st = "c_exec"
    /\ IF sp.execOk
       THEN /\ child' = [child EXCEPT !.st = "running"]
            /\ pipe' = [pipe EXCEPT !.wC = FALSE]
       ELSE /\ child' = [child EXCEPT !.st = "c_fail", !.err = "OSError", !.xc = EX_OSERR]
            /\ pipe' = pipe
    /\ UNCHANGED <<h, tty, sp, pc, fr, ret, ev, cfg>>

\* Lines 258-259 and 270-271: the dumped error reaches the pipe, ...
ChildWriteErr ==
    /\ child.st = "c_fail"
    /\ pipe' = [pipe EXCEPT !.data = <<child.err>>]
    /\ child' = [child EXCEPT !.st = "c_written"]
    /\ UNCHANGED <<h, tty, sp, pc, fr, ret, ev, cfg>>

\* ... the with statement closes the write end, ...
ChildCloseW ==
    /\ child.st = "c_written"
    /\ pipe' = [pipe EXCEPT !.wC = FALSE]
    /\ child' = [child EXCEPT !.st = "c_closed"]
    /\ UNCHANGED <<h, tty, sp, pc, fr, ret, ev, cfg>>

\* ... and lines 260 and 272: os._exit.
ChildErrExit ==
    /\ child.st = "c_closed"
    /\ child' = [child EXCEPT !.st = "zombie", !.ws = ExitedStatus(child.xc)]
    /\ tty' = [tty EXCEPT !.slave = FALSE]
    /\ UNCHANGED <<h, pipe, sp, pc, fr, ret, ev, cfg>>

\* The copy of the caller that a failed chdir leaves behind ends at some point;
\* only then is its copy of the write end closed.
RunawayExit ==
    /\ child.st = "runaway"
    /\ \E c \in 0..MaxExit :
         child' = [child EXCEPT !.st = "zombie", !.ws = ExitedStatus(c)]
    /\ pipe' = [pipe EXCEPT !.wC = FALSE]
    /\ tty' = [tty EXCEPT !.slave = FALSE]
    /\ UNCHANGED <<h, sp, pc, fr, ret, ev, cfg>>

(* ------------------------------------------------- the kernel's side *)
\* The states in which the child is a live process with no status to report.
\* The program the child runs ignores sig.  Before exec the child is a copy of
\* the caller, with the default dispositions.
Ignores(ch, sig) == ch.st \in {"running", "stopped"} /\ sig \in cfg.ign

Killed(ch, sig) == [ch EXCEPT !.st = "zombie", !.ws = SignaledStatus(sig)]

\* A signal takes effect on the child: SIGKILL always ends it, SIGCONT does
\* not end it, SIGHUP and SIGINT end it unless the program ignores them.  A
\* zombie is not changed.  A stop is modelled as far as a wait call sees it:
\* "stopped" is a child with a stop to report, and it takes signals as a
\* running child does.
Deliver(ch, sig) ==
    IF ch.st \in {"zombie", "reaped", "none"} THEN ch
    ELSE IF sig = SIGKILL THEN Killed(ch, sig)
    ELSE IF sig = SIGCONT THEN ch
    ELSE IF Ignores(ch, sig) THEN ch
    ELSE Killed(ch, sig)

\* os.waitpid(self.pid, options).  pid 0: no status yet (only under WNOHANG);
\* a zombie is reaped, a stop is reported once; no child left: ECHILD.
\* blocks: the call does not return in this state.
Waitpid(ch, options) ==
    CASE ch.st = "reaped" ->
           [pid |-> 0, status |-> 0, err |-> "ECHILD", blocks |-> FALSE, child |-> ch]
      [] ch.st = "zombie" ->
           [pid |-> 1, status |-> ch.ws, err |-> "none", blocks |-> FALSE,
            child |-> [ch EXCEPT !.st = "reaped", !.ws = 0]]
      [] ch.st = "stopped" ->
           [pid |-> 1, status |-> StoppedStatus(SIGSTOP), err |-> "none",
            blocks |-> FALSE, child |-> [ch EXCEPT !.st = "running"]]
      [] OTHER ->
           [pid |-> 0, status |-> 0, err |-> "none", blocks |-> options # WNOHANG,
            child |-> ch]

\* What the child may have become between two system calls of the parent.
Later(ch) ==
    {ch} \cup
    (IF ch.st = "running"
     THEN {[ch EXCEPT !.st = "zombie", !.ws = ExitedStatus(c)] : c \in 0..MaxExit}
          \cup {Killed(ch, SIGKILL), [ch EXCEPT !.st = "stopped"]}
     ELSE {})

(* ---------------------------------------------------------------- isalive *)
\* Classify with the exit status left as it was when a signal killed the child.
ClassifyKeepsExit(hh, status) ==
    IF WIFEXITED(status)
    THEN [h |-> [hh EXCEPT !.status = Some(status),
                           !.exitstatus = Some(WEXITSTATUS(status)),
                           !.signalstatus = None, !.terminated = TRUE],
          exc |-> "none"]
    ELSE IF WIFSIGNALED(status)
    THEN [h |-> [hh EXCEPT !.status = Some(status),
                           !.signalstatus = Some(WTERMSIG(status)),
                           !.terminated = TRUE],
          exc |-> "none"]
    ELSE IF WIFSTOPPED(status)
    THEN [h |-> hh, exc |-> "PtyProcessError"]
    ELSE [h |-> hh, exc |-> "none"]

\* Lines 730-747 (and 647-663 of wait): the fields a wait status sets.
Classify(hh, status) ==
    IF WIFEXITED(status)
    THEN [h |-> [hh EXCEPT !.status = Some(status),
                           !.exitstatus = Some(WEXITSTATUS(status)),
                           !.signalstatus = None, !.terminated = TRUE],
          exc |-> "none"]
    ELSE IF WIFSIGNALED(status)
    THEN [h |-> [hh EXCEPT !.status = Some(status), !.exitstatus = None,
                           !.signalstatus = Some(WTERMSIG(status)),
                           !.terminated = TRUE],
          exc |-> "none"]
    ELSE IF WIFSTOPPED(status)
    THEN [h |-> hh, exc |-> "PtyProcessError"]
    ELSE [h |-> hh, exc |-> "none"]

\* isalive polling without blocking whether or not EOF was seen.
WaitpidOptionsNoHang(hh) == WNOHANG

\* Lines 676-683.
WaitpidOptions(hh) == IF hh.flag_eof THEN 0 ELSE WNOHANG

\* isalive without the test of self.terminated at lines 673-674.
IsAliveNoShortcut(hh, ch, mid) ==
    LET opt == WaitpidOptions(hh)
        w1 == Waitpid(ch, opt)
        w2 == Waitpid(mid, opt)
        out(hx, cx, r, e, ws, b) ==
            [h |-> hx, child |-> cx, ret |-> r, exc |-> e, waits |-> ws, blocks |-> b]
    IN  IF w1.blocks THEN out(hh, ch, TRUE, "none", <<opt>>, TRUE)
        ELSE IF w1.err = "ECHILD"
        THEN out(hh, w1.child, FALSE, "PtyProcessError", <<opt>>, FALSE)
        ELSE IF w1.pid = 0
        THEN IF w2.blocks THEN out(hh, ch, TRUE, "none", <<opt, opt>>, TRUE)
             ELSE IF w2.err = "ECHILD"
             THEN out(hh, w2.child, FALSE, "PtyProcessError", <<opt, opt>>, FALSE)
             ELSE IF w2.pid = 0
             THEN out(hh, w2.child, TRUE, "none", <<opt, opt>>, FALSE)
             ELSE out(Classify(hh, w2.status).h, w2.child, FALSE,
                      Classify(hh, w2.status).exc, <<opt, opt>>, FALSE)
        ELSE out(Classify(hh, w1.status).h, w1.child, FALSE,
                 Classify(hh, w1.status).exc, <<opt>>, FALSE)

\* isalive that returns True on the first "no status yet", with no second
\* wait call.
IsAliveSingleWait(hh, ch, mid) ==
    LET opt == WaitpidOptions(hh)
        w1 == Waitpid(ch, opt)
        out(hx, cx, r, e, ws, b) ==
            [h |-> hx, child |-> cx, ret |-> r, exc |-> e, waits |-> ws, blocks |-> b]
    IN  IF hh.terminated THEN out(hh, ch, FALSE, "none", <<>>, FALSE)
        ELSE IF w1.blocks THEN out(hh, ch, TRUE, "none", <<opt>>, TRUE)
        ELSE IF w1.err = "ECHILD"
        THEN out(hh, w1.child, FALSE, "PtyProcessError", <<opt>>, FALSE)
        ELSE IF w1.pid = 0 THEN out(hh, w1.child, TRUE, "none", <<opt>>, FALSE)
        ELSE out(Classify(hh, w1.status).h, w1.child, FALSE,
                 Classify(hh, w1.status).exc, <<opt>>, FALSE)

\* Lines 673-747.  mid is the child as the second waitpid call finds it.
\* The result: the instance, the child, the value returned, the exception
\* raised, the options of the wait calls made, and whether the call blocks.
IsAlive(hh, ch, mid) ==
    LET opt == WaitpidOptions(hh)
        w1 == Waitpid(ch, opt)
        w2 == Waitpid(mid, opt)
        out(hx, cx, r, e, ws, b) ==
            [h |-> hx, child |-> cx, ret |-> r, exc |-> e, waits |-> ws, blocks |-> b]
    IN  IF hh.terminated THEN out(hh, ch, FALSE, "none", <<>>, FALSE)
        ELSE IF w1.blocks THEN out(hh, ch, TRUE, "none", <<opt>>, TRUE)
        ELSE IF w1.err = "ECHILD"
        THEN out(hh, w1.child, FALSE, "PtyProcessError", <<opt>>, FALSE)
        ELSE IF w1.pid = 0
        THEN IF w2.blocks THEN out(hh, ch, TRUE, "none", <<opt, opt>>, TRUE)
             ELSE IF w2.err = "ECHILD"
             THEN out(hh, w2.child, FALSE, "PtyProcessError", <<opt, opt>>, FALSE)
             ELSE IF w2.pid = 0
             THEN out(hh, w2.child, TRUE, "none", <<opt, opt>>, FALSE)
             ELSE out(Classify(hh, w2.status).h, w2.child, FALSE,
                      Classify(hh, w2.status).exc, <<opt, opt>>, FALSE)
        ELSE out(Classify(hh, w1.status).h, w1.child, FALSE,
                 Classify(hh, w1.status).exc, <<opt>>, FALSE)

\* The runs of isalive from the present state: one for each thing the child
\* may have become by the second wait call, if there is one.
IsAliveRuns ==
    {r \in {IsAlive(h, child, mid) : mid \in Later(child)} : ~r.blocks}

\* A child that has ended has closed its side of the terminal.
TtyAfter(ch) ==
    IF ch.st \in {"zombie", "reaped"} THEN [tty EXCEPT !.slave = FALSE] ELSE tty

(* --------------------------------------------- results and system calls *)
\* ret: the operation; the exception it raised; the value it returned, a
\* boolean (bool) or an integer, bytes or nothing (val); the path it took (via)
\* and, for terminate, the force argument of the call.
Returned(op, b, v) == [NoRet EXCEPT !.op = op, !.bool = b, !.val = v]
Raised(op, e) == [NoRet EXCEPT !.op = op, !.exc = e]
Called(waits, sigs) == [waits |-> waits, sigs |-> sigs, closes |-> 0, oscloses |-> 0]

(* ----------------------------------------------------------- isalive, kill *)
IsAliveCall ==
    /\ pc = "idle"
    /\ \E r \in IsAliveRuns :
         /\ h' = r.h
         /\ child' = r.child
         /\ tty' = TtyAfter(r.child)
         /\ ret' = IF r.exc # "none" THEN Raised("isalive", r.exc)
                   ELSE Returned("isalive", r.ret, None)
         /\ ev' = Called(r.waits, <<>>)
    /\ UNCHANGED <<pipe, sp, pc, fr, cfg>>

\* kill that signals whatever its probe returned.
KillWithoutProbe(r, sig, oserr) ==
    IF r.exc # "none" THEN [child |-> r.child, exc |-> r.exc, sigs |-> <<>>]
    ELSE IF oserr THEN [child |-> r.child, exc |-> "OSError", sigs |-> <<sig>>]
    ELSE [child |-> Deliver(r.child, sig), exc |-> "none", sigs |-> <<sig>>]

\* Lines 758-759 on top of a run r of isalive: os.kill is called if isalive
\* returned True; oserr: os.kill raises an OSError (EPERM, ESRCH).
Kill(r, sig, oserr) ==
    IF r.exc # "none" THEN [child |-> r.child, exc |-> r.exc, sigs |-> <<>>]
    ELSE IF ~r.ret THEN [child |-> r.child, exc |-> "none", sigs |-> <<>>]
    ELSE IF oserr THEN [child |-> r.child, exc |-> "OSError", sigs |-> <<sig>>]
    ELSE [child |-> Deliver(r.child, sig), exc |-> "none", sigs |-> <<sig>>]

KillCall ==
    /\ pc = "idle"
    /\ \E r \in IsAliveRuns, sig \in {SIGHUP, SIGINT, SIGCONT, SIGKILL}, oserr \in BOOLEAN :
         LET k == Kill(r, sig, oserr) IN
         /\ h' = r.h
         /\ child' = k.child
         /\ tty' = TtyAfter(k.child)
         /\ ret' = IF k.exc # "none" THEN Raised("kill", k.exc)
                   ELSE Returned("kill", FALSE, None)
         /\ ev' = Called(r.waits, k.sigs)
    /\ UNCHANGED <<pipe, sp, pc, fr, cfg>>

(* ------------------------------------------------------------------- close *)
\* close that marks the instance closed and leaves fd as it was.
CloseEndKeepsFd(hh, exc, why) ==
    /\ h' = IF exc = "none" THEN [hh EXCEPT !.closed = TRUE] ELSE hh
    /\ IF fr.closer = "del"
       THEN /\ pc' = "dead"
            /\ ret' = Returned("del", FALSE, None)
       ELSE /\ pc' = "idle"
            /\ ret' = [(IF exc = "none" THEN Returned("close", FALSE, None)
                        ELSE Raised("close", exc))
                       EXCEPT !.via = why, !.force = fr.cforce]
    /\ fr' = NoFrame

\* Lines 352-353, or the exception that leaves close; __del__ (lines 324-332)
\* swallows it, and the instance is gone afterwards.
\* why: what ended close: its probe found the child not alive ("notalive") or
\* raised ("probe"), or terminate returned True ("terminated"), returned
\* False ("unterminated") or raised ("raised").
CloseEnd(hh, exc, why) ==
    /\ h' = IF exc = "none" THEN [hh EXCEPT !.fd = -1, !.closed = TRUE] ELSE hh
    /\ IF fr.closer = "del"
       THEN /\ pc' = "dead"
            /\ ret' = Returned("del", FALSE, None)
       ELSE /\ pc' = "idle"
            /\ ret' = [(IF exc = "none" THEN Returned("close", FALSE, None)
                        ELSE Raised("close", exc))
                       EXCEPT !.via = why, !.force = fr.cforce]
    /\ fr' = NoFrame

(* --------------------------------------------------------------- terminate *)
TermSeq == <<SIGHUP, SIGCONT, SIGINT, SIGKILL>>

\* close going on to mark the instance closed when terminate returned False.
TermEndCloseIgnoresFalse(hh, val, exc, via) ==
    IF fr.caller = "user"
    THEN /\ h' = hh
         /\ pc' = "idle"
         /\ ret' = [(IF exc # "none" THEN Raised("terminate", exc)
                     ELSE Returned("terminate", val, None))
                    EXCEPT !.via = via, !.force = fr.force]
         /\ fr' = NoFrame
    ELSE CloseEnd(hh, exc, IF exc # "none" THEN "raised"
                           ELSE IF ~val THEN "unterminated" ELSE "terminated")

\* terminate returns val or raises exc; to close (lines 350-351) if close
\* called it.
TermEnd(hh, val, exc, via) ==
    IF fr.caller = "user"
    THEN /\ h' = hh
         /\ pc' = "idle"
         /\ ret' = [(IF exc # "none" THEN Raised("terminate", exc)
                     ELSE Returned("terminate", val, None))
                    EXCEPT !.via = via, !.force = fr.force]
         /\ fr' = NoFrame
    ELSE CloseEnd(hh, IF exc # "none" THEN exc
                      ELSE IF ~val THEN "PtyProcessError" ELSE "none",
                  IF exc # "none" THEN "raised"
                  ELSE IF ~val THEN "unterminated" ELSE "terminated")

TerminateCall ==
    /\ pc = "idle"
    /\ \E force \in BOOLEAN :
         fr' = [NoFrame EXCEPT !.force = force, !.caller = "user"]
    /\ pc' = "t_probe"
    /\ ev' = NoEv
    /\ UNCHANGED <<h, child, tty, pipe, sp, ret, cfg>>

\* terminate giving up after the continue signal, with no interrupt signal.
NextSignalNoInterrupt(k, force) ==
    IF k < 2 THEN k + 1
    ELSE 0

\* terminate going on to the kill signal whatever force is.
NextSignalAlwaysKill(k, force) ==
    IF k < 4 THEN k + 1
    ELSE 0

\* Where terminate goes after the probe that follows the k-th signal reported
\* alive (lines 601-623): the number of the next signal, or 0: return False.
NextSignal(k, force) ==
    IF k < 3 THEN k + 1
    ELSE IF k = 3 /\ force THEN 4
    ELSE 0

\* Lines 601, 606, 610, 614, 619: the probe after the fr.k-th signal.
TermProbe ==
    /\ pc = "t_probe"
    /\ \E r \in IsAliveRuns :
         /\ child' = r.child
         /\ tty' = TtyAfter(r.child)
         /\ ev' = Called(r.waits, <<>>)
         /\ IF r.exc # "none" THEN TermEnd(r.h, FALSE, r.exc, "try")
            ELSE IF ~r.ret THEN TermEnd(r.h, TRUE, "none", "try")
            ELSE IF NextSignal(fr.k, fr.force) = 0 THEN TermEnd(r.h, FALSE, "none", "try")
            ELSE /\ h' = r.h
                 /\ pc' = "t_kill"
                 /\ fr' = [fr EXCEPT !.k = NextSignal(fr.k, fr.force)]
                 /\ ret' = ret
    /\ UNCHANGED <<pipe, sp, cfg>>

\* Lines 604, 608, 612, 617: self.kill(signal); an OSError goes to line 624.
TermKill ==
    /\ pc = "t_kill"
    /\ \E r \in IsAliveRuns, oserr \in BOOLEAN :
         LET k == Kill(r, TermSeq[fr.k], oserr) IN
         /\ child' = k.child
         /\ tty' = TtyAfter(k.child)
         /\ ev' = Called(r.waits, k.sigs)
         /\ IF k.exc = "PtyProcessError" THEN TermEnd(r.h, FALSE, k.exc, "try")
            ELSE /\ h' = r.h
                 /\ pc' = IF k.exc = "OSError" THEN "t_except" ELSE "t_probe"
                 /\ fr' = [fr EXCEPT !.sent = IF k.exc = "none" THEN @ \o k.sigs ELSE @]
                 /\ ret' = ret
    /\ UNCHANGED <<pipe, sp, cfg>>

\* The except clause returning False whatever its probe reports.
TermExceptReturnsFalse ==
    /\ pc = "t_except"
    /\ \E r \in IsAliveRuns :
         /\ child' = r.child
         /\ tty' = TtyAfter(r.child)
         /\ ev' = Called(r.waits, <<>>)
         /\ TermEnd(r.h, FALSE, r.exc, "except")
    /\ UNCHANGED <<pipe, sp, cfg>>

\* Lines 624-633: one more probe after an OSError.
TermExcept ==
    /\ pc = "t_except"
    /\ \E r \in IsAliveRuns :
         /\ child' = r.child
         /\ tty' = TtyAfter(r.child)
         /\ ev' = Called(r.waits, <<>>)
         /\ TermEnd(r.h, IF r.exc # "none" THEN FALSE ELSE ~r.ret, r.exc, "except")
    /\ UNCHANGED <<pipe, sp, cfg>>

(* ------------------------------------------------------- close, __del__ *)
\* A file object that closes its descriptor again when it is closed already.
FileobjCloseAgain(hh) ==
    [h |-> [hh EXCEPT !.fileobj = "closed"], oscloses |-> 1]

\* Line 346, self.fileobj.close(): a file object closes its descriptor when it
\* is open and does nothing when it is closed already.
FileobjClose(hh) ==
    [h |-> [hh EXCEPT !.fileobj = "closed"],
     oscloses |-> IF hh.fileobj = "open" THEN 1 ELSE 0]

\* Lines 344-348.  Closing the master side hangs up the terminal: the kernel
\* sends SIGHUP to the child.
CloseBegin(force, closer) ==
    LET c == FileobjClose(h) IN
    /\ h' = c.h
    /\ child' = IF c.oscloses > 0 THEN Deliver(child, SIGHUP) ELSE child
    /\ tty' = [TtyAfter(child') EXCEPT !.mcloses = tty.mcloses + c.oscloses]
    /\ ev' = [NoEv EXCEPT !.closes = 1, !.oscloses = c.oscloses]
    /\ fr' = [NoFrame EXCEPT !.cforce = force, !.closer = closer]
    /\ pc' = "c_probe"
    /\ ret' = ret

CloseCall ==
    /\ pc = "idle"
    /\ \E force \in BOOLEAN :
         IF h.closed
         THEN /\ ret' = [Returned("close", FALSE, None) EXCEPT !.via = "noop"]
              /\ ev' = NoEv
              /\ UNCHANGED <<h, child, tty, fr, pc>>
         ELSE CloseBegin(force, "user")
    /\ UNCHANGED <<pipe, sp, cfg>>

\* Lines 324-332.
Del ==
    /\ pc = "idle"
    /\ IF h.closed
       THEN /\ ret' = [Returned("del", FALSE, None) EXCEPT !.via = "noop"]
            /\ ev' = NoEv
            /\ pc' = "dead"
            /\ UNCHANGED <<h, child, tty, fr>>
       ELSE CloseBegin(TRUE, "del")
    /\ UNCHANGED <<pipe, sp, cfg>>

\* Lines 349-353.
CloseProbe ==
    /\ pc = "c_probe"
    /\ \E r \in IsAliveRuns :
         /\ child' = r.child
         /\ tty' = TtyAfter(r.child)
         /\ ev' = Called(r.waits, <<>>)
         /\ IF r.exc # "none" THEN CloseEnd(r.h, r.exc, "probe")
            ELSE IF r.ret
            THEN /\ h' = r.h
                 /\ pc' = "t_probe"
                 /\ fr' = [fr EXCEPT !.force = fr.cforce, !.caller = "close", !.k = 0]
                 /\ ret' = ret
            ELSE CloseEnd(r.h, "none", "notalive")
    /\ UNCHANGED <<pipe, sp, cfg>>

(* -------------------------------------------------------------------- wait *)
\* Line 642: the probe; lines 644-645 if the child is not alive.
WaitCall ==
    /\ pc = "idle"
    /\ \E r \in IsAliveRuns :
         /\ h' = r.h
         /\ child' = r.child
         /\ tty' = TtyAfter(r.child)
         /\ ev' = Called(r.waits, <<>>)
         /\ IF r.exc # "none" THEN ret' = Raised("wait", r.exc) /\ pc' = pc
            ELSE IF ~r.ret THEN ret' = Returned("wait", FALSE, r.h.exitstatus) /\ pc' = pc
            ELSE ret' = ret /\ pc' = "w_block"
    /\ UNCHANGED <<pipe, sp, fr, cfg>>

\* Lines 646-664 for the status the blocking wait returned: the exit status
\* is stored before the status is classified.
WaitDecode(hh, status) ==
    Classify([hh EXCEPT !.exitstatus = Some(WEXITSTATUS(status))], status)

\* Line 643: os.waitpid(self.pid, 0), and lines 646-664.
WaitBlock ==
    /\ pc = "w_block"
    /\ LET w == Waitpid(child, 0)
           d == WaitDecode(h, w.status)
       IN /\ ~w.blocks
          /\ child' = w.child
          /\ tty' = TtyAfter(w.child)
          /\ ev' = Called(<<0>>, <<>>)
          /\ IF w.err # "none"
             THEN h' = h /\ ret' = [Raised("wait", "ChildProcessError") EXCEPT !.via = "block"]
             ELSE /\ h' = d.h
                  /\ ret' = [(IF d.exc # "none" THEN Raised("wait", d.exc)
                              ELSE Returned("wait", FALSE, d.h.exitstatus))
                             EXCEPT !.via = "block"]
    /\ pc' = "idle"
    /\ UNCHANGED <<pipe, sp, fr, cfg>>

(* ------------------------------------------------------- read, readline *)
Min(a, b) == IF a < b THEN a ELSE b

\* The end of the stream as the platform shows it: an EIO error (Linux) or an
\* empty result (BSD).
RawEof == IF cfg.style = "linux"
          THEN [kind |-> "error", errno |-> EIO, data |-> <<>>, rest |-> <<>>]
          ELSE [kind |-> "data", errno |-> 0, data |-> <<>>, rest |-> <<>>]

\* self.fileobj.read1(size), line 475: at most size of the bytes that are
\* there; none are there: the end of the stream once the child's side is
\* closed, and before that the call blocks.  read1(0) returns no bytes at
\* once.
RawRead1(size) ==
    IF size = 0 THEN [kind |-> "data", errno |-> 0, data |-> <<>>, rest |-> tty.buf]
    ELSE IF tty.buf # <<>>
    THEN [kind |-> "data", errno |-> 0,
          data |-> SubSeq(tty.buf, 1, Min(size, Len(tty.buf))),
          rest |-> SubSeq(tty.buf, Min(size, Len(tty.buf)) + 1, Len(tty.buf))]
    ELSE IF ~tty.slave THEN RawEof
    ELSE [kind |-> "blocks", errno |-> 0, data |-> <<>>, rest |-> <<>>]

FirstNL(b) == CHOOSE i \in 1..Len(b) : b[i] = NL /\ \A j \in 1..(i - 1) : b[j] # NL
HasNL(b) == \E i \in 1..Len(b) : b[i] = NL

\* self.fileobj.readline(), line 496: the bytes up to the first newline; with
\* no newline there, it reads on until the end of the stream, where it returns
\* what it has (BSD) or the read raises EIO and what it has is lost (Linux).
RawReadline ==
    IF HasNL(tty.buf)
    THEN [kind |-> "data", errno |-> 0,
          data |-> SubSeq(tty.buf, 1, FirstNL(tty.buf)),
          rest |-> SubSeq(tty.buf, FirstNL(tty.buf) + 1, Len(tty.buf))]
    ELSE IF tty.slave THEN [kind |-> "blocks", errno |-> 0, data |-> <<>>, rest |-> <<>>]
    ELSE IF cfg.style = "linux" THEN RawEof
    ELSE [kind |-> "data", errno |-> 0, data |-> tty.buf, rest |-> <<>>]

\* An I/O error other than EIO that the read may fail with.
EBADF == 9
RawError == [kind |-> "error", errno |-> EBADF, data |-> <<>>, rest |-> tty.buf]

\* read with the flag cleared by a read that does not meet the end of the
\* stream.
ReadResultClearsFlag(hh, raw) ==
    IF raw.kind = "error"
    THEN IF raw.errno = EIO
         THEN [h |-> [hh EXCEPT !.flag_eof = TRUE], exc |-> "EOFError", val |-> None]
         ELSE [h |-> [hh EXCEPT !.flag_eof = FALSE], exc |-> "OSError", val |-> None]
    ELSE IF raw.data = <<>>
    THEN [h |-> [hh EXCEPT !.flag_eof = TRUE], exc |-> "EOFError", val |-> None]
    ELSE [h |-> [hh EXCEPT !.flag_eof = FALSE], exc |-> "none", val |-> raw.data]

\* read without the test for an empty result at lines 482-485.
ReadResultNoEmptyTest(hh, raw) ==
    IF raw.kind = "error"
    THEN IF raw.errno = EIO
         THEN [h |-> [hh EXCEPT !.flag_eof = TRUE], exc |-> "EOFError", val |-> None]
         ELSE [h |-> hh, exc |-> "OSError", val |-> None]
    ELSE [h |-> hh, exc |-> "none", val |-> raw.data]

\* Lines 474-487 (and 495-508): the flag, and what is raised or returned, for
\* what the raw read did.
ReadResult(hh, raw) ==
    IF raw.kind = "error"
    THEN IF raw.errno = EIO
         THEN [h |-> [hh EXCEPT !.flag_eof = TRUE], exc |-> "EOFError", val |-> None]
         ELSE [h |-> hh, exc |-> "OSError", val |-> None]
    ELSE IF raw.data = <<>>
    THEN [h |-> [hh EXCEPT !.flag_eof = TRUE], exc |-> "EOFError", val |-> None]
    ELSE [h |-> hh, exc |-> "none", val |-> raw.data]

\* What the raw read did: failed with EIO, failed with another error, returned
\* no bytes, returned bytes.
RawKind(raw) ==
    IF raw.kind = "error" THEN (IF raw.errno = EIO THEN "EIO" ELSE "other")
    ELSE IF raw.data = <<>> THEN "empty" ELSE "data"

\* A read through the file object: a closed file object raises ValueError
\* before any system call.
DoRead(op, raw) ==
    /\ raw.kind # "blocks"
    /\ LET r == ReadResult(h, raw) IN
       IF h.fileobj = "closed"
       THEN /\ ret' = [Raised(op, "ValueError") EXCEPT !.via = "closed"]
            /\ UNCHANGED <<h, tty>>
       ELSE /\ h' = r.h
            /\ tty' = [tty EXCEPT !.buf = raw.rest]
            /\ ret' = [NoRet EXCEPT !.op = op, !.exc = r.exc, !.val = r.val,
                                    !.via = RawKind(raw)]
    /\ ev' = NoEv
    /\ UNCHANGED <<child, pipe, sp, pc, fr, cfg>>

Read ==
    /\ pc = "idle"
    /\ \E size \in 0..MaxSize : DoRead("read", RawRead1(size))

Readline ==
    /\ pc = "idle"
    /\ DoRead("readline", RawReadline)

ReadError ==
    /\ pc = "idle"
    /\ h.fileobj = "open"
    /\ \E op \in {"read", "readline"} : DoRead(op, RawError)

\* Lines 510-524: nothing of the instance changes.
Write ==
    /\ pc = "idle"
    /\ ret' = IF h.fileobj = "closed" THEN Raised("write", "ValueError")
              ELSE IF ~tty.slave THEN Raised("write", "OSError")
              ELSE Returned("write", FALSE, Some(1))
    /\ ev' = NoEv
    /\ UNCHANGED <<h, child, tty, pipe, sp, pc, fr, cfg>>

(* ------------------------------------------------ the child and other parties *)
ChildOutput ==
    /\ child.st = "running"
    /\ tty.slave
    /\ tty.mcloses = 0
    /\ Len(tty.buf) < MaxBuf
    /\ \E b \in Bytes : tty' = [tty EXCEPT !.buf = Append(tty.buf, b)]
    /\ UNCHANGED <<h, child, pipe, sp, pc, fr, ret, ev, cfg>>

\* The program closes its side of the terminal and goes on running.
ChildCloseTty ==
    /\ child.st = "running"
    /\ tty.slave
    /\ tty' = [tty EXCEPT !.slave = FALSE]
    /\ UNCHANGED <<h, child, pipe, sp, pc, fr, ret, ev, cfg>>

ChildExit ==
    /\ child.st = "running"
    /\ \E c \in 0..MaxExit :
         child' = [child EXCEPT !.st = "zombie", !.ws = ExitedStatus(c)]
    /\ tty' = [tty EXCEPT !.slave = FALSE]
    /\ UNCHANGED <<h, pipe, sp, pc, fr, ret, ev, cfg>>

\* The child is killed by a signal that is not the parent's.
ChildDies ==
    /\ child.st = "running"
    /\ child' = Killed(child, SIGKILL)
    /\ tty' = [tty EXCEPT !.slave = FALSE]
    /\ UNCHANGED <<h, pipe, sp, pc, fr, ret, ev, cfg>>

\* Another party stops the child (job control, a tracer), ...
ExternalStop ==
    /\ child.st = "running"
    /\ child' = [child EXCEPT !.st = "stopped"]
    /\ UNCHANGED <<h, tty, pipe, sp, pc, fr, ret, ev, cfg>>

\* ... or waits on the pid and takes the status.
ExternalReap ==
    /\ child.st = "zombie"
    /\ child' = [child EXCEPT !.st = "reaped", !.ws = 0]
    /\ UNCHANGED <<h, tty, pipe, sp, pc, fr, ret, ev, cfg>>

\* The instance as a successful spawn returns it: the child has exec'ed its
\* program, both ends of the error-report pipe are closed.
Init ==
    /\ h = NewHandle(5)
    /\ child = [st |-> "running", ws |-> 0, err |-> "none", xc |-> 0]
    /\ tty = [slave |-> TRUE, buf |-> <<>>, mcloses |-> 0]
    /\ pipe = [MadePipe EXCEPT !.rP = FALSE, !.wP = FALSE]
    /\ sp = [inst |-> TRUE, forked |-> TRUE, hook |-> "none", execOk |-> TRUE,
             cwdOk |-> TRUE, outcome |-> "returned", exc |-> "none"]
    /\ pc = "idle"
    /\ fr = NoFrame
    /\ ret = NoRet
    /\ ev = NoEv
    /\ cfg \in [ign : {{}, {SIGHUP}, {SIGHUP, SIGINT}}, style : {"linux", "bsd"}]

Environment ==
    \/ ChildOutput \/ ChildCloseTty \/ ChildExit \/ ChildDies
    \/ ExternalStop \/ ExternalReap

\* The life of an instance that spawn returned.
Next ==
    \/ IsAliveCall \/ KillCall \/ TerminateCall \/ TermProbe \/ TermKill \/ TermExcept
    \/ CloseCall \/ Del \/ CloseProbe \/ WaitCall \/ WaitBlock
    \/ Read \/ Readline \/ ReadError \/ Write
    \/ Environment

Spec == Init /\ [][Next]_vars

\* spawn, in the parent and in the child, and liveness probes of the instance
\* it built.
NextSpawn ==
    \/ Spawn \/ SpawnFork \/ SpawnInst \/ SpawnRead \/ SpawnWinsize
    \/ ChildSetup \/ ChildExec \/ ChildWriteErr \/ ChildCloseW \/ ChildErrExit
    \/ RunawayExit
    \/ IsAliveCall
    \/ ChildExit \/ ExternalReap

SpecSpawn == InitSpawn /\ [][NextSpawn]_vars

(* ------------------------------------------- an instance not from spawn *)
\* PtyProcess(pid, fd) called by a program that made the terminal and the
\* child itself: __init__ (lines 131-146) wraps the descriptor; spawn was not
\* called and there is no error-report pipe.
InitWrap ==
    /\ h = NewHandle(5)
    /\ child = [st |-> "running", ws |-> 0, err |-> "none", xc |-> 0]
    /\ tty = [slave |-> TRUE, buf |-> <<>>, mcloses |-> 0]
    /\ pipe = [made |-> FALSE, data |-> <<>>, rP |-> FALSE, wP |-> FALSE,
               rC |-> FALSE, wC |-> FALSE]
    /\ sp = [inst |-> FALSE, forked |-> FALSE, hook |-> "none", execOk |-> TRUE,
             cwdOk |-> TRUE, outcome |-> "none", exc |-> "none"]
    /\ pc = "idle"
    /\ fr = NoFrame
    /\ ret = NoRet
    /\ ev = NoEv
    /\ cfg \in [ign : {{}, {SIGHUP}, {SIGHUP, SIGINT}}, style : {"linux", "bsd"}]

\* The instance is probed, signalled, and dropped: __del__ and the close it
\* calls.
NextWrap ==
    \/ IsAliveCall \/ KillCall
    \/ Del \/ CloseProbe \/ TermProbe \/ TermKill \/ TermExcept
    \/ Environment

SpecWrap == InitWrap /\ [][NextWrap]_vars

(* ------------------------------------------------------------ sendcontrol *)
\* Characters, as code points: ASCII, and three others: e with acute (233),
\* capital I with dot above (304), the Kelvin sign (8490).
Chars == (0..127) \cup {233, 304, 8490}

\* str.lower() without the upper-case letters.
LowerIdentity(c) == <<c>>

\* Line 534, char.lower(), on one character; the result is a string: A-Z go
\* to a-z, the Kelvin sign to k, and capital I with dot above to two
\* characters, i and the combining dot above (775).
Lower(c) ==
    IF c \in 65..90 THEN <<c + 32>>
    ELSE IF c = 8490 THEN <<107>>
    ELSE IF c = 304 THEN <<105, 775>>
    ELSE <<c>>

\* Lines 541-554, the dictionary d, keyed by code point.
ControlDict ==
    (64 :> 0) @@ (96 :> 0) @@ (91 :> 27) @@ (123 :> 27) @@ (92 :> 28) @@ (124 :> 28)
    @@ (93 :> 29) @@ (125 :> 29) @@ (94 :> 30) @@ (126 :> 30) @@ (95 :> 31) @@ (63 :> 127)

\* Lines 534-559: the exception raised ("none": none), the bytes handed to
\* _writeb (nothing: _writeb is not called) and the byte string returned.
\* ord() of a string that is not one character raises TypeError.
SendcontrolBytes(c) ==
    LET l == Lower(c) IN
    IF Len(l) # 1 THEN [exc |-> "TypeError", call |-> FALSE, byte |-> <<>>]
    ELSE IF l[1] >= 97 /\ l[1] <= 122
         THEN [exc |-> "none", call |-> TRUE, byte |-> <<l[1] - 97 + 1>>]
    ELSE IF l[1] \notin DOMAIN ControlDict
         THEN [exc |-> "none", call |-> FALSE, byte |-> <<>>]
    ELSE [exc |-> "none", call |-> TRUE, byte |-> <<ControlDict[l[1]]>>]

\* Lines 510-517, _writeb: the write of the file object returns the number of
\* bytes it took; the flush fails once the child's side is closed.
WritebResult(hh, b) ==
    IF hh.fileobj = "closed" THEN [exc |-> "ValueError", n |-> 0, wrote |-> <<>>]
    ELSE IF ~tty.slave THEN [exc |-> "OSError", n |-> 0, wrote |-> <<>>]
    ELSE [exc |-> "none", n |-> Len(b), wrote |-> b]

\* sendcontrol(char) for one character: char is the argument, n and val the
\* pair returned, wrote the bytes that reached the terminal.
Sendcontrol ==
    /\ pc = "idle"
    /\ \E c \in Chars :
         LET sc == SendcontrolBytes(c)
             w  == WritebResult(h, sc.byte)
             exc == IF sc.exc # "none" THEN sc.exc
                    ELSE IF sc.call THEN w.exc ELSE "none"
         IN ret' = [op |-> "sendcontrol", exc |-> exc, bool |-> FALSE,
                    val |-> IF exc = "none" THEN sc.byte ELSE None,
                    via |-> "none", force |-> FALSE, char |-> c,
                    n |-> IF exc = "none" /\ sc.call THEN w.n ELSE 0,
                    wrote |-> IF sc.exc = "none" /\ sc.call THEN w.wrote ELSE <<>>]
    /\ ev' = NoEv
    /\ UNCHANGED <<h, child, tty, pipe, sp, pc, fr, cfg>>

\* Calls of sendcontrol on an instance that spawn returned.
NextControl == Sendcontrol \/ ChildCloseTty

SpecControl == Init /\ [][NextControl]_vars

(* ------------------------------------------------------ PtyProcessUnicode *)
MaxText == 2         \* a text has at most MaxText characters

\* Characters of one, two and three bytes in UTF-8: A, e with acute, the
\* euro sign.
TextChars == {65, 233, 8364}
Texts == UNION {[1..n -> TextChars] : n \in 0..MaxText}

\* str.encode("utf-8") of one character (line 829).
EncodeChar(c) ==
    IF c < 128 THEN <<c>>
    ELSE IF c < 2048 THEN <<192 + (c \div 64), 128 + (c % 64)>>
    ELSE IF c < 65536
    THEN <<224 + (c \div 4096), 128 + ((c \div 64) % 64), 128 + (c % 64)>>
    ELSE <<240 + (c \div 262144), 128 + ((c \div 4096) % 64),
           128 + ((c \div 64) % 64), 128 + (c % 64)>>

RECURSIVE Encode(_)
Encode(t) == IF t = <<>> THEN <<>> ELSE EncodeChar(t[1]) \o Encode(Tail(t))

\* The length of the sequence a lead byte begins; 0: no lead byte.
SeqLen(b) ==
    IF b < 128 THEN 1
    ELSE IF b \in 194..223 THEN 2
    ELSE IF b \in 224..239 THEN 3
    ELSE IF b \in 240..244 THEN 4
    ELSE 0

\* The character of one complete sequence.
CodePoint(b) ==
    IF Len(b) = 1 THEN b[1]
    ELSE IF Len(b) = 2 THEN (b[1] - 192) * 64 + (b[2] - 128)
    ELSE IF Len(b) = 3 THEN (b[1] - 224) * 4096 + (b[2] - 128) * 64 + (b[3] - 128)
    ELSE (b[1] - 240) * 262144 + (b[2] - 128) * 4096 + (b[3] - 128) * 64 + (b[4] - 128)

\* A decoder that drops an incomplete trailing sequence.
RECURSIVE Utf8DecodeDropsTail(_)
Utf8DecodeDropsTail(b) ==
    IF b = <<>> THEN [str |-> <<>>, rest |-> <<>>, exc |-> "none"]
    ELSE LET n == SeqLen(b[1]) IN
         IF n = 0 \/ \E i \in 2..Min(n, Len(b)) : b[i] \notin 128..191
         THEN [str |-> <<>>, rest |-> b, exc |-> "UnicodeDecodeError"]
         ELSE IF Len(b) < n THEN [str |-> <<>>, rest |-> <<>>, exc |-> "none"]
         ELSE LET r == Utf8DecodeDropsTail(SubSeq(b, n + 1, Len(b))) IN
              [str |-> <<CodePoint(SubSeq(b, 1, n))>> \o r.str,
               rest |-> r.rest, exc |-> r.exc]

\* Lines 798 and 809, decoder.decode(data, final=False) with errors="strict",
\* on the bytes the decoder kept followed by the new ones: the characters of
\* the complete sequences, and the incomplete trailing sequence, which the
\* decoder keeps; a byte that fits no sequence raises UnicodeDecodeError.
RECURSIVE Utf8Decode(_)
Utf8Decode(b) ==
    IF b = <<>> THEN [str |-> <<>>, rest |-> <<>>, exc |-> "none"]
    ELSE LET n == SeqLen(b[1]) IN
         IF n = 0 \/ \E i \in 2..Min(n, Len(b)) : b[i] \notin 128..191
         THEN [str |-> <<>>, rest |-> b, exc |-> "UnicodeDecodeError"]
         ELSE IF Len(b) < n THEN [str |-> <<>>, rest |-> b, exc |-> "none"]
         ELSE LET r == Utf8Decode(SubSeq(b, n + 1, Len(b))) IN
              [str |-> <<CodePoint(SubSeq(b, 1, n))>> \o r.str,
               rest |-> r.rest, exc |-> r.exc]

\* Lines 774-784: PtyProcessUnicode.__init__ adds the decoder, which holds no
\* bytes.
NewUnicodeHandle(fd) == [decoder |-> <<>>] @@ NewHandle(fd)

\* What a run of the text channel has seen: the text to write, whether it was
\* written, the strings read so far, joined, and the number of them.
TextEv(t) == [text |-> t, sent |-> FALSE, got |-> <<>>, reads |-> 0] @@ NoEv

\* An instance of PtyProcessUnicode that spawn returned; the child sends back
\* what it is sent.
InitText ==
    /\ h = NewUnicodeHandle(5)
    /\ child = [st |-> "running", ws |-> 0, err |-> "none", xc |-> 0]
    /\ tty = [slave |-> TRUE, buf |-> <<>>, mcloses |-> 0]
    /\ pipe = [MadePipe EXCEPT !.rP = FALSE, !.wP = FALSE]
    /\ sp = [inst |-> TRUE, forked |-> TRUE, hook |-> "none", execOk |-> TRUE,
             cwdOk |-> TRUE, outcome |-> "returned", exc |-> "none"]
    /\ pc = "idle"
    /\ fr = NoFrame
    /\ ret = NoRet
    /\ \E t \in Texts : ev = TextEv(t)
    /\ cfg \in [ign : {{}}, style : {"linux", "bsd"}]

\* Lines 823-830, PtyProcessUnicode.write: the encoded text goes to the
\* terminal and comes back from the child.
UnicodeWrite ==
    /\ pc = "idle"
    /\ ~ev.sent
    /\ LET w == WritebResult(h, Encode(ev.text)) IN
       /\ tty' = [tty EXCEPT !.buf = w.wrote]
       /\ ret' = IF w.exc # "none" THEN Raised("write", w.exc)
                 ELSE Returned("write", FALSE, Some(w.n))
    /\ ev' = [ev EXCEPT !.sent = TRUE]
    /\ UNCHANGED <<h, child, pipe, sp, pc, fr, cfg>>

\* Lines 786-798, PtyProcessUnicode.read: PtyProcess.read, and the decoder on
\* the bytes it returned.  A decoder that raises keeps what it held.
UnicodeRead ==
    /\ pc = "idle"
    /\ ev.sent
    /\ \E size \in 0..MaxSize :
         LET raw == RawRead1(size)
             r == ReadResult(h, raw)
             dec == Utf8Decode(h.decoder \o raw.data)
         IN /\ raw.kind # "blocks"
            /\ tty' = [tty EXCEPT !.buf = raw.rest]
            /\ IF r.exc # "none"
               THEN /\ h' = r.h
                    /\ ret' = Raised("read", r.exc)
                    /\ ev' = ev
               ELSE IF dec.exc # "none"
               THEN /\ h' = r.h
                    /\ ret' = Raised("read", dec.exc)
                    /\ ev' = ev
               ELSE /\ h' = [r.h EXCEPT !.decoder = dec.rest]
                    /\ ret' = Returned("read", FALSE, dec.str)
                    /\ ev' = [ev EXCEPT !.got = @ \o dec.str, !.reads = @ + 1]
    /\ UNCHANGED <<child, pipe, sp, pc, fr, cfg>>

NextText == UnicodeWrite \/ UnicodeRead

SpecText == InitText /\ [][NextText]_vars

(* ------------------------------- spawn, the child: closing descriptors *)
MaxPass == 2         \* pass_fds holds at most MaxPass descriptors
FdCap == 7           \* the cap on max_fd (1048576 at line 246), scaled down

SetOf(seq) == {seq[i] : i \in DOMAIN seq}

\* sorted(S) of a set of integers.
RECURSIVE Sorted(_)
Sorted(S) ==
    IF S = {} THEN <<>>
    ELSE LET m == CHOOSE x \in S : \A y \in S : x <= y
         IN <<m>> \o Sorted(S \ {m})

\* zip(a, b): pairs up to the shorter of the two.
Zip(a, b) == [i \in 1..Min(Len(a), Len(b)) |-> <<a[i], b[i]>>]

\* os.closerange(fd_low, fd_high) closes fd_low <= fd < fd_high.
Closerange(fd_low, fd_high) == fd_low..(fd_high - 1)

\* Line 246.
MaxFdOf(rlimit) == Min(FdCap, rlimit)

\* Lines 247-249: the descriptors the loop of closerange calls closes.
ClosedBeforeExec(pass_fds, exec_err_pipe_write, max_fd) ==
    LET spass == Sorted(SetOf(pass_fds) \cup {exec_err_pipe_write})
        pairs == Zip(<<2>> \o spass, spass \o <<max_fd>>)
    IN UNION {Closerange(pairs[i][1] + 1, pairs[i][2]) : i \in DOMAIN pairs}

PassFds == UNION {[1..n -> 0..FdCap] : n \in 0..MaxPass}

\* The child just after line 238, with spawn's pass_fds, the number of the
\* pipe's write end and the soft limit on open files.
InitFds ==
    /\ h = NewHandle(-1)
    /\ child = [st |-> "c_setup", ws |-> 0, err |-> "none", xc |-> 0]
    /\ tty = [slave |-> TRUE, buf |-> <<>>, mcloses |-> 0]
    /\ pipe = [MadePipe EXCEPT !.wC = TRUE]
    /\ \E pass_fds \in PassFds, rlimit \in {FdCap - 1, FdCap + 1} :
         \E w \in 3..(MaxFdOf(rlimit) - 1) :
            sp = [pass_fds |-> pass_fds, w |-> w, max_fd |-> MaxFdOf(rlimit),
                  closed |-> {}, ranges |-> 0]
    /\ pc = "c_closefds"
    /\ fr = NoFrame
    /\ ret = NoRet
    /\ ev = NoEv
    /\ cfg = [ign |-> {}, style |-> "linux"]

\* Lines 246-249 in the child.
ChildCloseFds ==
    /\ pc = "c_closefds"
    /\ sp' = [sp EXCEPT !.closed = ClosedBeforeExec(sp.pass_fds, sp.w, sp.max_fd),
                        !.ranges = Cardinality(SetOf(sp.pass_fds) \cup {sp.w}) + 1]
    /\ pc' = "c_chdir"
    /\ UNCHANGED <<h, child, tty, pipe, fr, ret, ev, cfg>>

NextFds == ChildCloseFds

SpecFds == InitFds /\ [][NextFds]_vars

(* ------------------------------------------------------------ fairness *)
\* An operation that has begun goes on whenever its next system call returns.
\* Nothing makes the caller begin an operation, nor the child end.
FairSpec ==
    /\ Spec
    /\ WF_vars(TermProbe) /\ WF_vars(TermKill) /\ WF_vars(TermExcept)
    /\ WF_vars(CloseProbe) /\ WF_vars(WaitBlock)

\* spawn: each system call of the parent returns when it can, and the child
\* branch of spawn runs on to its exec or its os._exit.  Nothing makes the copy
\* of the caller that an uncaught exception leaves in the child come to an end.
FairSpecSpawn ==
    /\ SpecSpawn
    /\ WF_vars(SpawnFork) /\ WF_vars(SpawnInst) /\ WF_vars(SpawnRead)
    /\ WF_vars(SpawnWinsize)
    /\ WF_vars(ChildSetup) /\ WF_vars(ChildExec) /\ WF_vars(ChildWriteErr)
    /\ WF_vars(ChildCloseW) /\ WF_vars(ChildErrExit)

(* ------------------------------------------------------------------ C1 *)
\* C1: in every reachable state, terminated implies that exactly one of
\* exitstatus and signalstatus is set, whichever operation reaped the child.
TerminatedHasOneStatus ==
    h.terminated => ((h.exitstatus # None) # (h.signalstatus # None))

\* The blocking wait of wait() reaped a child that a signal killed.
WitnessWaitReapedSignaled ==
    /\ ret.op = "wait" /\ ret.via = "block"
    /\ h.terminated /\ h.signalstatus = Some(SIGKILL) /\ h.exitstatus = None

(* ------------------------------------------------------------------ C2 *)
ParentStep ==
    \/ IsAliveCall \/ KillCall \/ TerminateCall \/ TermProbe \/ TermKill \/ TermExcept
    \/ CloseCall \/ Del \/ CloseProbe \/ WaitCall \/ WaitBlock

\* C2: once terminated is true it stays true, exitstatus and signalstatus do
\* not change, no step of isalive, wait, kill, terminate or close makes a
\* wait call, isalive returns False and wait returns the stored exitstatus.
TerminatedAbsorbing ==
    [][h.terminated =>
         /\ h'.terminated
         /\ h'.exitstatus = h.exitstatus
         /\ h'.signalstatus = h.signalstatus
         /\ (ParentStep => ev'.waits = <<>>)
         /\ (KillCall => ev'.sigs = <<>>)
         /\ (IsAliveCall => ret' = Returned("isalive", FALSE, None))
         /\ (WaitCall => ret' = Returned("wait", FALSE, h.exitstatus) /\ pc' = "idle")
      ]_vars

\* wait() returned the stored exit status of a terminated instance without a
\* wait call.
WitnessWaitAfterTerminated ==
    /\ h.terminated /\ ret.op = "wait" /\ ev.waits = <<>>
    /\ ret.val = h.exitstatus /\ h.exitstatus = Some(1)

(* ------------------------------------------------------------------ C3 *)
\* C3 as stated: the descriptor is released at most once, and every close()
\* or __del__ after the first close() has no effect, also when that first
\* close() raised.  (Only close() closes the file object.)
CloseIdempotentAlways ==
    [][ /\ tty'.mcloses <= 1
        /\ (h.fileobj = "closed" /\ (CloseCall \/ Del))
             => (h' = h /\ child' = child /\ tty' = tty /\ pc' \in {"idle", "dead"})
      ]_vars

\* C3, amended: the descriptor is released at most once over any sequence of
\* close() and __del__ calls, also after a close() that raised; every close()
\* or __del__ after a close() that completed (closed is true) has no effect.
CloseIdempotentOnceClosed ==
    [][ /\ tty'.mcloses <= 1
        /\ (h.closed /\ (CloseCall \/ Del))
             => (h' = h /\ child' = child /\ tty' = tty /\ pc' \in {"idle", "dead"}
                 /\ ev' = NoEv /\ ret'.via = "noop")
      ]_vars

\* A close() that follows a close() that raised: it calls the file object's
\* close again and the descriptor is not released a second time.
WitnessCloseRetried ==
    /\ pc = "c_probe" /\ ret.op = "close" /\ ret.exc = "PtyProcessError"
    /\ ev.closes = 1 /\ ev.oscloses = 0 /\ tty.mcloses = 1

(* ------------------------------------------------------------------ C4 *)
\* terminate(force=True) has been called on a running child whose program
\* ignores the hang-up and interrupt signals (the continue signal ends no
\* process).
ForceCalledOnDeafChild ==
    /\ pc = "t_probe" /\ fr.k = 0 /\ fr.caller = "user" /\ fr.force
    /\ child.st = "running" /\ cfg.ign = {SIGHUP, SIGINT}

\* terminate has returned True; or it ended in a way the claim leaves aside:
\* it raised (another party stopped or reaped the child), or a signal send
\* failed with an OS error.
ForceCallEnded ==
    /\ pc = "idle" /\ ret.op = "terminate"
    /\ (ret.bool \/ ret.exc # "none" \/ ret.via = "except")

\* C4, as a property of behaviours: terminate(force=True) on a running child
\* that ignores hang-up, continue and interrupt eventually returns True,
\* whether or not EOF has been observed on the instance.
ForceTerminateReturnsTrue == ForceCalledOnDeafChild ~> ForceCallEnded

\* C4, what it needs in every state: while terminate(force=True) is at work on
\* a running child that ignores hang-up, continue and interrupt, its next step
\* can be taken (it is not held in a wait call that only the child's end would
\* let return), whether or not EOF has been observed on the instance.
ForceTerminateNeverHeld ==
    (/\ pc \in {"t_probe", "t_kill", "t_except"} /\ fr.caller = "user" /\ fr.force
     /\ child.st = "running" /\ cfg.ign = {SIGHUP, SIGINT})
        => ENABLED (TermProbe \/ TermKill \/ TermExcept)

\* The same with EOF not observed when terminate is called.
ForceTerminateReturnsTrueNoEof ==
    (ForceCalledOnDeafChild /\ ~h.flag_eof) ~> ForceCallEnded

FlagEofMonotonic ==
    /\ ~h.flag_eof
    /\ [][ /\ h.flag_eof => h'.flag_eof
           /\ (~h.flag_eof /\ h'.flag_eof)
                => ((Read \/ Readline) /\ ret'.exc = "EOFError")
         ]_vars

\* The flag is set and later operations have run: the instance was closed and
\* the child reaped after EOF was seen.
WitnessEofThenClosed ==
    /\ h.flag_eof /\ h.closed /\ h.terminated /\ ret.op = "close"

(* ------------------------------------------------------------------ C7 *)
\* C7: when the pre-exec hook raises, spawn raises exactly that error, and an
\* isalive() made at any point after spawn has raised returns False.
HookErrorThenNotAlive ==
    /\ [](( pc = "idle" /\ sp.hook # "none" /\ sp.cwdOk)
            => (sp.outcome = "raised" /\ sp.exc = sp.hook))
    /\ [][ (IsAliveCall /\ sp.outcome = "raised" /\ sp.exc = sp.hook
                        /\ sp.hook # "none")
             => ret' = Returned("isalive", FALSE, None) ]_vars

(* ------------------------------------------------------------------ C8 *)
\* C8: once spawn has read the error pipe, it returns an instance if and only
\* if the pipe ended with nothing written; if the child wrote an error, spawn
\* raises that error and returns no instance.  (An error of setwinsize, after
\* the handshake, is left aside.)
HandshakeOutcome ==
    (sp.inst /\ ~pipe.rP /\ pc = "idle") =>
        IF pipe.data = <<>>
        THEN sp.outcome = "returned" \/ sp.exc = "IOError"
        ELSE sp.outcome = "raised" /\ sp.exc = pipe.data[1]

(* ------------------------------------------------------------------ C9 *)
\* C9: when spawn raises for an argv that is no list or tuple, or a program
\* that cannot be resolved, no pipe was created, fork was not called, and no
\* process, instance or terminal exists.
PreconditionFailureAllocatesNothing ==
    (sp.outcome = "raised" /\ sp.exc \in {"TypeError", "FileNotFoundError"}) =>
        /\ ~pipe.made /\ ~pipe.rP /\ ~pipe.wP
        /\ ~sp.forked /\ child.st = "none"
        /\ ~sp.inst /\ ~tty.slave

\* spawn raised FileNotFoundError.
WitnessCommandNotFound ==
    pc = "done" /\ sp.outcome = "raised" /\ sp.exc = "FileNotFoundError"

(* ----------------------------------------------------------------- C10 *)
\* C10: a read or readline whose raw read fails with EIO, or returns no
\* bytes, sets flag_eof and raises EOFError; one that fails with another
\* error raises it and leaves the instance as it was; one that returns
\* normally returns at least one byte and leaves the instance as it was.
ReadNormalisesEof ==
    [][ ((Read \/ Readline \/ ReadError) /\ h.fileobj = "open") =>
          /\ ret'.via \in {"EIO", "empty"}
               => (h'.flag_eof /\ ret'.exc = "EOFError" /\ ret'.val = None)
          /\ ret'.via = "other" => (ret'.exc = "OSError" /\ h' = h)
          /\ ret'.via = "data" => (ret'.exc = "none" /\ h' = h)
          /\ ret'.exc = "none" => ret'.val # <<>>
      ]_vars

\* A read raised EOFError and set flag_eof after the child exited and its
\* side of the terminal was closed.
WitnessReadEofAfterExit ==
    /\ pc = "idle" /\ ret.op = "read" /\ ret.exc = "EOFError"
    /\ h.flag_eof /\ child.st \in {"zombie", "reaped"} /\ ~tty.slave
    /\ ev = NoEv

(* ----------------------------------------------------------------- C11 *)
\* The byte the specified mapping gives for a character, as a byte string;
\* nothing for a character it does not map.
SpecifiedControl(c) ==
    IF c \in 97..122 THEN <<c - 96>>
    ELSE IF c \in 65..90 THEN <<c - 64>>
    ELSE IF c \in {64, 96} THEN <<0>>
    ELSE IF c \in {91, 123} THEN <<27>>
    ELSE IF c \in {92, 124} THEN <<28>>
    ELSE IF c \in {93, 125} THEN <<29>>
    ELSE IF c \in {94, 126} THEN <<30>>
    ELSE IF c \in {95, 63} THEN <<127>>
    ELSE <<>>

\* C11 as stated: for every character, sendcontrol writes exactly the byte of
\* the specified mapping ('_' and '?' to 127) and returns it, and for any
\* other character writes nothing and returns a zero-length result.
SendcontrolAsSpecified ==
    (ret.op = "sendcontrol" /\ tty.slave) =>
        /\ ret.exc = "none"
        /\ ret.val = SpecifiedControl(ret.char)
        /\ ret.wrote = SpecifiedControl(ret.char)
        /\ ret.n = Len(SpecifiedControl(ret.char))

\* What the code maps a character to: as specified, but '_' to 31, and the
\* Kelvin sign, whose lower case is k, to 11.
AmendedControl(c) ==
    IF c = 95 THEN <<31>>
    ELSE IF c = 8490 THEN <<11>>
    ELSE SpecifiedControl(c)

\* C11, amended: '_' maps to 31 and only '?' to 127; the Kelvin sign maps to
\* 11 like k; capital I with dot above, whose lower case is two characters,
\* raises TypeError and writes nothing; the rest is as stated.
SendcontrolMapping ==
    (ret.op = "sendcontrol" /\ tty.slave) =>
        IF ret.char = 304
        THEN ret.exc = "TypeError" /\ ret.wrote = <<>>
        ELSE /\ ret.exc = "none"
             /\ ret.val = AmendedControl(ret.char)
             /\ ret.wrote = AmendedControl(ret.char)
             /\ ret.n = Len(AmendedControl(ret.char))

\* sendcontrol('_') wrote the byte 31 and returned (1, b'\x1f').
WitnessUnderscore ==
    /\ ret.op = "sendcontrol" /\ ret.char = 95 /\ ret.exc = "none"
    /\ ret.wrote = <<31>> /\ ret.val = <<31>> /\ ret.n = 1

(* ----------------------------------------------------------------- C12 *)
\* C12: whatever the sizes of the reads, no read raises a decoding error, the
\* strings read so far followed by the bytes the decoder keeps and the bytes
\* not yet read are the text written, and once every byte is read the strings
\* returned, joined, are the text written.
TextRoundTrip ==
    ev.sent =>
        /\ ret.exc # "UnicodeDecodeError"
        /\ Encode(ev.got) \o h.decoder \o tty.buf = Encode(ev.text)
        /\ (tty.buf = <<>> => (ev.got = ev.text /\ h.decoder = <<>>))

\* The euro sign and e with acute were read back in five reads of one byte
\* each: every read but the last of each character split its sequence.
WitnessSplitSequences ==
    /\ ev.sent /\ ev.text = <<8364, 233>> /\ ev.got = ev.text
    /\ ev.reads = 5 /\ tty.buf = <<>>

IsAliveAtMostTwoWaits ==
    [][ IsAliveCall =>
          LET first == Waitpid(child, WaitpidOptions(h)) IN
          /\ Len(ev'.waits) <= 2
          /\ (Len(ev'.waits) = 2) <=>
                (~h.terminated /\ first.err = "none" /\ first.pid = 0)
          /\ (ret'.exc = "none" /\ ret'.bool) =>
                (Len(ev'.waits) = 2 /\ h' = h /\ child'.st \notin {"zombie", "reaped"})
      ]_vars

\* isalive() made two wait calls and the second found the child ended: the
\* child ended between the two calls.
WitnessSecondWaitReaps ==
    /\ pc = "idle" /\ ret.op = "isalive" /\ ret.exc = "none" /\ ~ret.bool
    /\ Len(ev.waits) = 2 /\ h.terminated /\ child.st = "reaped"

(* ----------------------------------------------------------------- C15 *)
\* A wait call reports a protocol violation: it fails with ECHILD, or it
\* reports the child stopped.
Violation(w) ==
    \/ w.err = "ECHILD"
    \/ (w.err = "none" /\ w.pid # 0 /\ WIFSTOPPED(w.status))

\* C15: when a wait call of isalive() or of wait() on an instance that is not
\* terminated fails with ECHILD or reports the child stopped, the operation
\* raises PtyProcessError and the instance is not marked terminated.
ProtocolViolationsRaise ==
    [][ /\ (IsAliveCall /\ ~h.terminated /\ Violation(Waitpid(child, WaitpidOptions(h))))
             => (ret'.exc = "PtyProcessError" /\ ~h'.terminated)
        /\ (WaitBlock /\ Violation(Waitpid(child, 0)))
             => (ret'.exc = "PtyProcessError" /\ ~h'.terminated)
      ]_vars

(* ----------------------------------------------------------------- C16 *)
\* C16: in every state exitstatus is set only if a wait call reported a normal
\* exit (status holds that wait status, and exitstatus is its exit code), and
\* signalstatus only if a wait call reported a death by signal; at most one
\* of the two is set.  A wait call that reports the child stopped sets no
\* status, so it leaves both unset.
StatusOnlyFromItsOutcome ==
    /\ h.exitstatus # None =>
         /\ h.status # None /\ WIFEXITED(h.status[1])
         /\ h.exitstatus = Some(WEXITSTATUS(h.status[1]))
    /\ h.signalstatus # None =>
         /\ h.status # None /\ WIFSIGNALED(h.status[1])
         /\ h.signalstatus = Some(WTERMSIG(h.status[1]))
    /\ ~(h.exitstatus # None /\ h.signalstatus # None)

(* ----------------------------------------------------------------- C17 *)
\* C17: a wait() on an instance whose child is not alive returns the stored
\* exitstatus and makes no blocking wait call of its own; on a live child it
\* makes one blocking wait call and, whatever that call reports, leaves
\* terminated, exitstatus and signalstatus as isalive() would for that status,
\* and returns the exit status for a normal exit and None for a death by
\* signal.
WaitClassifiesAsIsAlive ==
    [][ /\ (WaitCall /\ pc' = "idle" /\ ret'.exc = "none")
             => (ret'.val = h'.exitstatus /\ h'.terminated)
        /\ (WaitBlock /\ Waitpid(child, 0).err = "none") =>
             LET status == Waitpid(child, 0).status
                 c == Classify(h, status)
             IN /\ ev'.waits = <<0>>
                /\ h'.terminated = c.h.terminated
                /\ h'.exitstatus = c.h.exitstatus
                /\ h'.signalstatus = c.h.signalstatus
                /\ WIFEXITED(status) => ret'.val = Some(WEXITSTATUS(status))
                /\ WIFSIGNALED(status) => (ret'.exc = "none" /\ ret'.val = None)
      ]_vars

(* ----------------------------------------------------------------- C18 *)
\* The signals sent by the terminate in progress, by its frame f, are a
\* beginning of the sequence, the kill signal is among them only if force is
\* true, and terminate is about to send the next one only after a probe found
\* the child alive.
SentInOrder(f, p, hh) ==
    /\ f.sent \in {<<>>, <<SIGHUP>>, <<SIGHUP, SIGCONT>>,
                   <<SIGHUP, SIGCONT, SIGINT>>,
                   <<SIGHUP, SIGCONT, SIGINT, SIGKILL>>}
    /\ (Len(f.sent) = 4 => f.force)
    /\ (p = "t_kill" => (f.k = Len(f.sent) + 1 /\ ~hh.terminated))

\* C18: the signals a terminate() has sent are, in order, a beginning of
\* hang-up, continue, interrupt, kill, with kill only if force is true; a
\* liveness probe follows each signal sent; and a probe that finds the child
\* not alive ends terminate, which returns True and sends nothing more.
\* (A step from pc = "t_kill" is a step of TermKill, one from pc = "t_probe"
\* a step of TermProbe or of no operation.)
TerminateSignalOrder ==
    /\ SentInOrder(fr, pc, h)
    /\ [][ /\ SentInOrder(fr', pc', h')
           /\ (pc = "t_kill" /\ Len(fr'.sent) > Len(fr.sent)) => pc' = "t_probe"
           /\ (pc = "t_kill" /\ h'.terminated) => (fr'.sent = fr.sent /\ ev'.sigs = <<>>)
           /\ (pc = "t_probe" /\ pc' # "t_probe" /\ fr.caller = "user" /\ h'.terminated)
                => (pc' = "idle" /\ ret' = [Returned("terminate", TRUE, None)
                                             EXCEPT !.via = "try", !.force = fr.force])
         ]_vars

\* terminate(force=True) has sent all four signals and is at the probe
\* after the kill signal.
WitnessAllFourSent ==
    /\ pc = "t_probe" /\ fr.caller = "user" /\ fr.force
    /\ fr.sent = <<SIGHUP, SIGCONT, SIGINT, SIGKILL>>

ClosedIsReleased(hh, t) ==
    hh.closed => (hh.fd = -1 /\ hh.fileobj = "closed" /\ t.mcloses = 1)

HandshakeOrderedAndTerminates ==
    /\ [](pc = "s_read" => ~pipe.wP)
    /\ (pc = "s_read") ~> (pc # "s_read")

\* The parent is blocked in the read while the child, whose chdir failed, goes
\* on as a copy of the caller that holds the write end open.
WitnessReadBlockedOnRunaway ==
    /\ pc = "s_read" /\ ~pipe.wP /\ pipe.wC /\ pipe.data = <<>>
    /\ child.st = "runaway"

(* ----------------------------------------------------------------- C22 *)
\* C22: the child never goes on running the caller's program after a failure
\* between fork and exec, and a child that ended by such a failure (chdir, the
\* pre-exec hook, exec) has written the error to the pipe and exited with a
\* non-zero status.
ChildFailureSerialized ==
    /\ child.st # "runaway"
    /\ (child.st = "zombie" /\ (~sp.cwdOk \/ sp.hook # "none" \/ ~sp.execOk)) =>
           (pipe.data # <<>> /\ WEXITSTATUS(child.ws) # 0)

(* ----------------------------------------------------------------- C23 *)
\* C23: for every pass_fds, the descriptors closed before exec are, below the
\* ceiling, exactly those from 3 on that are neither in pass_fds nor the
\* pipe's write end; 0, 1, 2, the members of pass_fds and the write end are
\* never closed, also when pass_fds contains 0, 1 or 2.
ClosesExactlyTheOthers ==
    pc = "c_chdir" =>
        LET keep == {0, 1, 2} \cup SetOf(sp.pass_fds) \cup {sp.w} IN
        /\ sp.closed \cap keep = {}
        /\ sp.closed \cap (0..(sp.max_fd - 1)) = (3..(sp.max_fd - 1)) \ keep

\* pass_fds names descriptor 0 and the loop has closed descriptors 1 and 2.
WitnessStdioClosed ==
    /\ pc = "c_chdir" /\ 0 \in SetOf(sp.pass_fds)
    /\ {1, 2} \subseteq sp.closed

(* ----------------------------------------------------------------- C24 *)
\* C24: an instance built by the constructor around the caller's descriptor
\* does not own it: __del__ of such an instance leaves the descriptor open.
DelLeavesWrappedDescriptor ==
    (~sp.inst /\ (fr.closer = "del" \/ pc = "dead")) =>
        (h.fileobj = "open" /\ tty.mcloses = 0)

\* __del__ of a wrapped instance has ended, and the caller's descriptor has
\* been closed.
WitnessDelClosedDescriptor ==
    ~sp.inst /\ pc = "dead" /\ ret.op = "del" /\ tty.mcloses = 1

(* ----------------------------------------------------------------- C25 *)
\* C25: over any sequence of kill(), terminate() and close() calls, a step
\* sends a signal to the pid only if the instance was not terminated before
\* it and a liveness probe made in that step, just before the signal,
\* reported alive; no signal is sent once terminated is true.
SignalOnlyAfterAliveProbe ==
    [][ /\ (ev'.sigs # <<>>) =>
              /\ ~h.terminated /\ ~h'.terminated
              /\ Len(ev'.sigs) = 1 /\ ev'.waits # <<>>
        /\ ( /\ ev'.sigs # <<>> /\ ev' # ev
             /\ pc = "t_kill" \/ (pc = "idle" /\ pc' = "idle" /\ ret'.op = "kill") )
              => \E r \in IsAliveRuns :
                     /\ r.exc = "none" /\ r.ret
                     /\ r.h = h' /\ r.waits = ev'.waits
      ]_vars

\* The terminate that close called has sent the kill signal, which ended the
\* child.
WitnessCloseSentKill ==
    /\ fr.caller = "close" /\ pc = "t_probe" /\ ev.sigs = <<SIGKILL>>
    /\ ev.waits # <<>> /\ child.st = "zombie" /\ ~h.terminated

(* ----------------------------------------------------------------- C26 *)
\* C26: in every reachable state closed implies terminated: close never
\* marks the instance closed while the child is unreaped.
ClosedImpliesTerminated ==
    h.closed => h.terminated

\* __del__ closed the terminal, the hangup ended the child, and the probe of
\* close reaped it: the instance is closed and terminated by SIGHUP.
WitnessClosedAfterHangup ==
    /\ pc = "dead" /\ ret.op = "del" /\ h.closed /\ h.terminated
    /\ h.signalstatus = Some(SIGHUP) /\ child.st = "reaped"

(* ----------------------------------------------------------------- C27 *)
\* C27: whenever spawn has finished in the parent after creating the
\* error-report pipe, by returning an instance or by raising (failure of the
\* fork, an error from the handshake, an error of setwinsize), the parent
\* has closed both ends of the pipe.
SpawnLeaksNoPipeEnd ==
    (pipe.made /\ sp.outcome # "none") => (~pipe.rP /\ ~pipe.wP)

\* spawn raised the OSError of the fork with both ends of the pipe open.
WitnessForkFailureLeaks ==
    /\ pc = "done" /\ sp.outcome = "raised" /\ sp.exc = "OSError" /\ ~sp.forked
    /\ pipe.made /\ pipe.rP /\ pipe.wP

====
